---- MODULE Spec2Model ----
(***************************************************************************)
(* Model of the MultiplicationShifts function pass                         *)
(* (src/MultiplicationShifts/MultiplicationShifts.cpp).                    *)
(*                                                                         *)
(* A function is a sequence of basic blocks in layout order; a block is a  *)
(* sequence of instructions that ends with its terminator.  An instruction *)
(* is a record [id, op, w, ops, flags]: id is its identity (the address of *)
(* the llvm::Instruction), op its opcode, w the bit width of its result,   *)
(* ops the sequence of its operand Values and flags its no-wrap flags, a   *)
(* subset of {"nsw", "nuw"}.  A Value is a record                          *)
(* [kind, w, val]: the function argument, a ConstantInt of width w and     *)
(* unsigned bit pattern val (an APInt), or the result of instruction val.  *)
(***************************************************************************)
EXTENDS Integers, Sequences, FiniteSets, TLC

\* ------------------------------------------------------------- bounds
MaxWidth == 3
MaxBlocks == 3
MaxInstrs == 2
MaxCalls == 2

\* Builder.getInt32: the shift amount is built as an i32 constant whatever
\* the width of the multiply; the record of the constant keeps that width
Int32Width == 32

Widths == 2..MaxWidth

\* ------------------------------------------------------------- APInt
RECURSIVE Pow2(_)
Pow2(n) == IF n = 0 THEN 1 ELSE 2 * Pow2(n - 1)

\* bit i of the bit pattern v
Bit(v, i) == (v \div Pow2(i)) % 2

RECURSIVE BitAndFrom(_, _, _, _)
BitAndFrom(a, b, i, w) ==
    IF i = w THEN 0
    ELSE Bit(a, i) * Bit(b, i) * Pow2(i) + BitAndFrom(a, b, i + 1, w)

\* a & b on w-bit patterns
BitAnd(a, b, w) == BitAndFrom(a, b, 0, w)

\* APInt::isPowerOf2 as a faulty variant: the test (v & (v-1)) == 0 alone,
\* which also accepts zero
isPowerOf2NoZeroTest(v, w) == BitAnd(v, (v + Pow2(w) - 1) % Pow2(w), w) = 0

\* APInt::isPowerOf2 (isPowerOf2_64 on the word): nonzero and v & (v-1) == 0.
\* The APInt is a bit pattern: no sign is involved.
isPowerOf2(v, w) == v # 0 /\ BitAnd(v, v - 1, w) = 0

RECURSIVE countLeadingZerosFrom(_, _)
countLeadingZerosFrom(v, i) ==
    IF i < 0 THEN 0
    ELSE IF Bit(v, i) = 1 THEN 0
    ELSE 1 + countLeadingZerosFrom(v, i - 1)

\* APInt::countl_zero
countLeadingZeros(v, w) == countLeadingZerosFrom(v, w - 1)

\* APInt::logBase2 == getActiveBits() - 1 == w - 1 - countl_zero()
logBase2(v, w) == w - 1 - countLeadingZeros(v, w)

\* a faulty variant of exactLogBase2: the number of active bits (one too many)
exactLogBase2ActiveBits(v, w) ==
    IF ~isPowerOf2(v, w) THEN -1 ELSE w - countLeadingZeros(v, w)

\* APInt::exactLogBase2
exactLogBase2(v, w) == IF ~isPowerOf2(v, w) THEN -1 ELSE logBase2(v, w)

RECURSIVE shlBits(_, _, _)
shlBits(x, k, w) ==
    IF k = 0 THEN x ELSE shlBits((2 * x) % Pow2(w), k - 1, w)

\* APInt::shl on a w-bit pattern: k one-bit shifts, the top bit dropped each
\* time.  A shift amount not below the width has no defined result (-1).
APIntShl(x, k, w) == IF k \in 0..(w - 1) THEN shlBits(x, k, w) ELSE -1

\* the value of 'mul' on w-bit patterns: the product, truncated to w bits
APIntMul(x, c, w) == (x * c) % Pow2(w)

\* ------------------------------------------------------------- IR values
End == 0

\* the function argument (llvm::Argument), of width w
ArgV(w) == [kind |-> "arg", w |-> w, val |-> 0]

\* ConstantInt of width w with bit pattern c; constants are uniqued, so two
\* constants are the same Value iff width and pattern agree
ConstantInt(w, c) == [kind |-> "const", w |-> w, val |-> c]

\* the result Value of the instruction with identity id
InstV(w, id) == [kind |-> "inst", w |-> w, val |-> id]

\* isa<BinaryOperator>: mul, add and shl are binary operators, a terminator
\* is not
BinaryOps == {"Mul", "Add", "Shl"}

\* ------------------------------------------------------------- functions
RECURSIVE SumTo(_, _)
SumTo(s, b) == IF b = 0 THEN 0 ELSE s[b] + SumTo(s, b - 1)

\* the instructions of a function, in layout order
RECURSIVE InstrsFrom(_, _)
InstrsFrom(Fn, b) ==
    IF b > Len(Fn) THEN <<>> ELSE Fn[b] \o InstrsFrom(Fn, b + 1)

Instrs(Fn) == InstrsFrom(Fn, 1)

InstrSet(Fn) == {Instrs(Fn)[p] : p \in 1..Len(Instrs(Fn))}

Ids(Fn) == {i.id : i \in InstrSet(Fn)}

\* the instruction of Fn with identity id
InstOf(Fn, id) == CHOOSE i \in InstrSet(Fn) : i.id = id

\* the index of the block that holds instruction id (its parent)
ParentOf(Fn, id) ==
    CHOOSE b \in 1..Len(Fn) : \E p \in 1..Len(Fn[b]) : Fn[b][p].id = id

\* the position of instruction id in its block
PosOf(Fn, id) ==
    LET b == ParentOf(Fn, id)
    IN  CHOOSE p \in 1..Len(Fn[b]) : Fn[b][p].id = id

\* BB.begin(): every block holds at least its terminator
Begin(Fn, b) == Fn[b][1].id

\* the iterator after the one at instruction id: the next instruction of
\* the block, or BB.end()
NextOf(Fn, id) ==
    LET b == ParentOf(Fn, id)
        p == PosOf(Fn, id)
    IN  IF p = Len(Fn[b]) THEN End ELSE Fn[b][p + 1].id

\* the ids of the instructions of Fn that have Value v among their operands
UsersOf(Fn, v) ==
    {i.id : i \in {j \in InstrSet(Fn) : \E q \in 1..Len(j.ops) : j.ops[q] = v}}

\* the ids of the instructions that the operands of Fn refer to
Referenced(Fn) ==
    UNION {{i.ops[q].val : q \in {r \in 1..Len(i.ops) : i.ops[r].kind = "inst"}}
           : i \in InstrSet(Fn)}

\* ------------------------------------------------------------- inputs
\* A shape gives the number of non-terminator instructions of each block;
\* a block of length 0 holds only its terminator.
Shapes ==
    {s \in UNION {[1..nb -> 0..MaxInstrs] : nb \in 1..MaxBlocks} :
        SumTo(s, Len(s)) \in 1..MaxInstrs}

\* the block of the i-th non-terminator instruction under shape s
BlockOfIndex(s, i) == CHOOSE b \in 1..Len(s) : SumTo(s, b - 1) < i /\ i <= SumTo(s, b)

\* the constants that may stand as operand 0
Operand0Consts == {1, 3}

Operand0Values(w, n, i) ==
    {ArgV(w)} \cup {ConstantInt(w, c) : c \in Operand0Consts}
              \cup {InstV(w, j) : j \in (1..n) \ {i}}

Operand1Values(w, n, i) ==
    {ArgV(w)} \cup {ConstantInt(w, c) : c \in 0..(Pow2(w) - 1)}
              \cup {InstV(w, j) : j \in (1..n) \ {i}}

InstrChoices(w, n, i) ==
    {[id |-> i, op |-> o, w |-> w, ops |-> <<a, b>>, flags |-> {}] :
        o \in {"Mul", "Add"}, a \in Operand0Values(w, n, i),
        b \in Operand1Values(w, n, i)}

RECURSIVE Bodies(_, _, _)
Bodies(w, n, i) ==
    IF i = 0 THEN {<<>>}
    ELSE {Append(p, x) : p \in Bodies(w, n, i - 1), x \in InstrChoices(w, n, i)}

\* the terminator of block b: not a binary operator, no operands
Terminator(n, b) ==
    [id |-> n + b, op |-> "Br", w |-> 0, ops |-> <<>>, flags |-> {}]

\* the function with shape s and non-terminator instructions body
MakeFunction(s, body) ==
    LET n == Len(body)
    IN  [b \in 1..Len(s) |->
            SubSeq(body, SumTo(s, b - 1) + 1, SumTo(s, b)) \o <<Terminator(n, b)>>]

\* Definitions dominate uses (the IR verifier's rule for non-phi
\* instructions): an operand defined in the same block stands earlier in it,
\* and the blocks can be ranked, the entry block first, so that every other
\* operand is defined in a block of lower rank.  Layout order is free
\* otherwise: a block may use a value of a block laid out after it.
Dominates(s, body) ==
    \E r \in {f \in [1..Len(s) -> 1..Len(s)] :
                f[1] = 1 /\ \A x, y \in 1..Len(s) : f[x] = f[y] => x = y} :
        \A i \in 1..Len(body) : \A q \in 1..2 :
            LET v == body[i].ops[q]
            IN  v.kind = "inst" =>
                    IF BlockOfIndex(s, v.val) = BlockOfIndex(s, i)
                    THEN v.val < i
                    ELSE r[BlockOfIndex(s, v.val)] < r[BlockOfIndex(s, i)]

\* ------------------------------------------------------------- the pass
VARIABLES
    F,          \* the function the pass runs on (mutated in place)
    Modified,   \* the static flag of line 14
    pc,         \* where run() stands: idle, loop, create, rauw, erase, flag, done
    BB,         \* the index of the block of the outer loop
    I,          \* the iterator of the inner loop: the id it points to, or End
    Inst,       \* the instruction fetched by the current iteration (Mul)
    NewMul,     \* the Value CreateShl returned
    PA,         \* what run() returned: "none", "all", or "unset"
    calls,      \* the number of calls of run() so far
    nextId,     \* the identity the next created instruction gets
    erased,     \* the identities of the instructions erased so far
    F0,         \* history: the function as it was when the current call began
    sites,      \* history: the rewrites of the current call
    examined,   \* history: the instructions the current call has fetched
    rest,       \* the functions of the module the pipeline has yet to visit
    printed,    \* what the printer pass has written to errs(), line by line
    F2,         \* a second, concurrent invocation of run(): its function
    pc2,        \* ... where it stands
    BB2,        \* ... the block of its outer loop
    I2,         \* ... its iterator
    Inst2,      \* ... the instruction it has fetched
    NewMul2,    \* ... the Value its CreateShl returned
    PA2,        \* ... what it returned
    nextId2,    \* ... the identity its next created instruction gets
    F02,        \* history: its function as it was when it began
    sites2      \* history: its rewrites

\* the state of the pipeline around the pass
pipe == <<rest, printed>>

\* the state of the second invocation
second == <<F2, pc2, BB2, I2, Inst2, NewMul2, PA2, nextId2, F02, sites2>>

vars == <<F, Modified, pc, BB, I, Inst, NewMul, PA, calls, nextId, erased, F0,
          sites, examined, pipe, second>>

NoValue == [kind |-> "none", w |-> 0, val |-> 0]

\* a faulty variant of the tests: the opcode is not looked at
MatchesAnyBinaryOperator(inst) ==
    /\ inst.op \in BinaryOps
    /\ inst.ops[2].kind = "const"
    /\ isPowerOf2(inst.ops[2].val, inst.ops[2].w)

\* a faulty variant of the tests: the constant 1 is skipped
MatchesSkipsOne(inst) ==
    /\ inst.op \in BinaryOps
    /\ inst.op = "Mul"
    /\ inst.ops[2].kind = "const"
    /\ isPowerOf2(inst.ops[2].val, inst.ops[2].w)
    /\ inst.ops[2].val # 1

\* lines 26-31: is the instruction a multiply by a constant power of two
Matches(inst) ==
    /\ inst.op \in BinaryOps
    /\ inst.op = "Mul"
    /\ inst.ops[2].kind = "const"
    /\ isPowerOf2(inst.ops[2].val, inst.ops[2].w)

\* a faulty variant of line 34: the constant itself is the shift amount
ShiftAmountIsConstant(C) == ConstantInt(Int32Width, C.val)

\* line 34: Builder.getInt32(C->getValue().exactLogBase2())
ShiftAmountOf(C) == ConstantInt(Int32Width, exactLogBase2(C.val, C.w))

\* a faulty variant of the insertion: at the front of the block
InsertAtFront(blk, id, x) == <<x>> \o blk

\* the block blk with instruction x inserted before the one with identity id
InsertBefore(blk, id, x) ==
    LET p == CHOOSE q \in 1..Len(blk) : blk[q].id = id
    IN  SubSeq(blk, 1, p - 1) \o <<x>> \o SubSeq(blk, p, Len(blk))

\* a faulty variant of line 35: a builder that never folds
CreateShlNoFold(Fn, at, LHS, RHS, id) ==
    [fn |-> [b \in 1..Len(Fn) |->
                IF b = ParentOf(Fn, at)
                THEN InsertBefore(Fn[b], at,
                        [id |-> id, op |-> "Shl", w |-> LHS.w,
                         ops |-> <<LHS, RHS>>, flags |-> {}])
                ELSE Fn[b]],
     v |-> InstV(LHS.w, id)]

\* a faulty variant of line 35: the shift takes over the no-wrap flags of
\* the instruction at the insertion point
CreateShlKeepsFlags(Fn, at, LHS, RHS, id) ==
    IF LHS.kind = "const" /\ RHS.kind = "const"
    THEN [fn |-> Fn,
          v |-> ConstantInt(LHS.w, APIntShl(LHS.val, RHS.val, LHS.w))]
    ELSE [fn |-> [b \in 1..Len(Fn) |->
                    IF b = ParentOf(Fn, at)
                    THEN InsertBefore(Fn[b], at,
                            [id |-> id, op |-> "Shl", w |-> LHS.w,
                             ops |-> <<LHS, RHS>>,
                             flags |-> InstOf(Fn, at).flags])
                    ELSE Fn[b]],
          v |-> InstV(LHS.w, id)]

\* line 35: Builder.CreateShl(LHS, RHS) with the builder's insertion point
\* at instruction at.  IRBuilder's ConstantFolder folds a shift of two
\* constants: the result is then a ConstantInt of the width of LHS and no
\* instruction is created.  Otherwise a 'shl' without flags, of the type of
\* LHS, is inserted before the insertion point.
CreateShl(Fn, at, LHS, RHS, id) ==
    IF LHS.kind = "const" /\ RHS.kind = "const"
    THEN [fn |-> Fn,
          v |-> ConstantInt(LHS.w, APIntShl(LHS.val, RHS.val, LHS.w))]
    ELSE [fn |-> [b \in 1..Len(Fn) |->
                    IF b = ParentOf(Fn, at)
                    THEN InsertBefore(Fn[b], at,
                            [id |-> id, op |-> "Shl", w |-> LHS.w,
                             ops |-> <<LHS, RHS>>, flags |-> {}])
                    ELSE Fn[b]],
          v |-> InstV(LHS.w, id)]

\* a faulty variant of line 36: only the uses as operand 0 are replaced
ReplaceUsesAsOperand0(Fn, old, new) ==
    [b \in 1..Len(Fn) |->
        [p \in 1..Len(Fn[b]) |->
            [Fn[b][p] EXCEPT !.ops =
                [q \in 1..Len(Fn[b][p].ops) |->
                    IF q = 1 /\ Fn[b][p].ops[q] = old
                    THEN new ELSE Fn[b][p].ops[q]]]]]

\* line 36: every operand of the function that is Value old becomes new
ReplaceAllUsesWith(Fn, old, new) ==
    [b \in 1..Len(Fn) |->
        [p \in 1..Len(Fn[b]) |->
            [Fn[b][p] EXCEPT !.ops =
                [q \in 1..Len(Fn[b][p].ops) |->
                    IF Fn[b][p].ops[q] = old THEN new ELSE Fn[b][p].ops[q]]]]]

\* line 37: the instruction is unlinked from its block and deleted
EraseFromParent(Fn, id) ==
    [b \in 1..Len(Fn) |->
        IF b = ParentOf(Fn, id)
        THEN SubSeq(Fn[b], 1, PosOf(Fn, id) - 1)
                \o SubSeq(Fn[b], PosOf(Fn, id) + 1, Len(Fn[b]))
        ELSE Fn[b]]

\* no call of run() has been made on F; the static flag has its initial value
BeforeFirstCall ==
    /\ F0 = F
    /\ Modified = FALSE
    /\ pc = "idle"
    /\ BB = 0
    /\ I = End
    /\ Inst = End
    /\ NewMul = NoValue
    /\ PA = "unset"
    /\ calls = 0
    /\ nextId = Len(Instrs(F)) + 1
    /\ erased = {}
    /\ sites = {}
    /\ examined = <<>>

\* the pass is called on one function, outside a pipeline
NoModule ==
    /\ rest = <<>>
    /\ printed = <<>>

\* there is no concurrent invocation
NoSecondInvocation ==
    /\ F2 = <<>>
    /\ F02 = <<>>
    /\ pc2 = "idle"
    /\ BB2 = 0
    /\ I2 = End
    /\ Inst2 = End
    /\ NewMul2 = NoValue
    /\ PA2 = "unset"
    /\ nextId2 = 1
    /\ sites2 = {}

\* A call of the pass gets any function of the bounded shapes and widths
\* that the verifier accepts.
Init ==
    /\ \E s \in Shapes, w \in Widths :
         \E body \in Bodies(w, SumTo(s, Len(s)), SumTo(s, Len(s))) :
            /\ Dominates(s, body)
            /\ F = MakeFunction(s, body)
    /\ BeforeFirstCall
    /\ NoModule
    /\ NoSecondInvocation

\* a faulty variant of the entry of run(): the flag is not reset (line 19
\* left out)
CallKeepsFlag ==
    /\ pc \in {"idle", "done"}
    /\ calls < MaxCalls
    /\ calls' = calls + 1
    /\ F0' = F
    /\ sites' = {}
    /\ BB' = 1
    /\ I' = Begin(F, 1)
    /\ Inst' = End
    /\ NewMul' = NoValue
    /\ PA' = "unset"
    /\ pc' = "loop"
    /\ examined' = <<>>
    /\ UNCHANGED <<F, Modified, nextId, erased, pipe, second>>

\* lines 18-23: run() is entered; the flag is reset and the loops start at
\* the first instruction of the first block
Call ==
    /\ pc \in {"idle", "done"}
    /\ calls < MaxCalls
    /\ calls' = calls + 1
    /\ Modified' = FALSE
    /\ F0' = F
    /\ sites' = {}
    /\ BB' = 1
    /\ I' = Begin(F, 1)
    /\ Inst' = End
    /\ NewMul' = NoValue
    /\ PA' = "unset"
    /\ pc' = "loop"
    /\ examined' = <<>>
    /\ UNCHANGED <<F, nextId, erased, pipe, second>>

\* a faulty variant of line 24: the iterator is not advanced when the
\* instruction is fetched
FetchWithoutAdvance ==
    /\ pc = "loop"
    /\ I # End
    /\ Inst' = I
    /\ I' = I
    /\ pc' = IF Matches(InstOf(F, I)) THEN "create" ELSE "loop"
    /\ examined' = Append(examined, I)
    /\ UNCHANGED <<F, Modified, BB, NewMul, PA, calls, nextId, erased, F0, sites,
                   pipe, second>>

\* lines 23-31: one iteration of the inner loop up to the tests; the
\* iterator moves on before the instruction is looked at
Fetch ==
    /\ pc = "loop"
    /\ I # End
    /\ Inst' = I
    /\ I' = NextOf(F, I)
    /\ pc' = IF Matches(InstOf(F, I)) THEN "create" ELSE "loop"
    /\ examined' = Append(examined, I)
    /\ UNCHANGED <<F, Modified, BB, NewMul, PA, calls, nextId, erased, F0, sites,
                   pipe, second>>

\* line 21: the inner loop has reached BB.end(); the outer loop moves on
NextBlock ==
    /\ pc = "loop"
    /\ I = End
    /\ BB < Len(F)
    /\ BB' = BB + 1
    /\ I' = Begin(F, BB + 1)
    /\ UNCHANGED <<F, Modified, pc, Inst, NewMul, PA, calls, nextId, erased, F0,
                   sites, examined, pipe, second>>

\* lines 33-35: the shift amount and the shift are built
Create ==
    /\ pc = "create"
    /\ LET Mul == InstOf(F, Inst)
           r == CreateShl(F, Inst, Mul.ops[1], ShiftAmountOf(Mul.ops[2]), nextId)
       IN  /\ F' = r.fn
           /\ NewMul' = r.v
           /\ nextId' = IF r.v.kind = "inst" THEN nextId + 1 ELSE nextId
    /\ pc' = "rauw"
    /\ UNCHANGED <<Modified, BB, I, Inst, PA, calls, erased, F0, sites, examined,
                   pipe, second>>

\* line 35 in a build of LLVM with assertions: the constructor of
\* BinaryOperator asserts that its two operands have one type.  The shift
\* amount is an i32, so creating the shift for a multiply of any other width
\* ends the process.  (A build without assertions goes on with Create.)
AssertOKFails ==
    /\ pc = "create"
    /\ LET Mul == InstOf(F, Inst)
       IN  /\ Mul.ops[1].kind # "const"
           /\ ShiftAmountOf(Mul.ops[2]).w # Mul.ops[1].w
    /\ pc' = "aborted"
    /\ UNCHANGED <<F, Modified, BB, I, Inst, NewMul, PA, calls, nextId, erased, F0,
                   sites, examined, pipe, second>>

\* line 36
Rauw ==
    /\ pc = "rauw"
    /\ F' = ReplaceAllUsesWith(F, InstV(InstOf(F, Inst).w, Inst), NewMul)
    /\ pc' = "erase"
    /\ UNCHANGED <<Modified, BB, I, Inst, NewMul, PA, calls, nextId, erased, F0,
                   sites, examined, pipe, second>>

\* line 37
Erase ==
    /\ pc = "erase"
    /\ F' = EraseFromParent(F, Inst)
    /\ erased' = erased \cup {Inst}
    /\ sites' = sites \cup {[mul |-> InstOf(F, Inst), new |-> NewMul]}
    /\ pc' = "flag"
    /\ UNCHANGED <<Modified, BB, I, Inst, NewMul, PA, calls, nextId, F0, examined,
                   pipe, second>>

\* line 38
SetModified ==
    /\ pc = "flag"
    /\ Modified' = TRUE
    /\ pc' = "loop"
    /\ UNCHANGED <<F, BB, I, Inst, NewMul, PA, calls, nextId, erased, F0, sites,
                   examined, pipe, second>>

\* line 46: both loops are over; the flag decides the result
Return ==
    /\ pc = "loop"
    /\ I = End
    /\ BB = Len(F)
    /\ PA' = IF Modified THEN "none" ELSE "all"
    /\ pc' = "done"
    /\ UNCHANGED <<F, Modified, BB, I, Inst, NewMul, calls, nextId, erased, F0,
                   sites, examined, pipe, second>>

Next ==
    \/ Call
    \/ Fetch
    \/ NextBlock
    \/ Create
    \/ AssertOKFails
    \/ Rauw
    \/ Erase
    \/ SetModified
    \/ Return

Spec == Init /\ [][Next]_vars

\* ------------------------------------------------------------ the pipeline
\* Lines 68-85 register the two passes in a FunctionPassManager: for every
\* function of the module, in turn, the transformation pass runs and then
\* the printer pass.

\* the instructions a function of a module has, besides its terminator
MaxModuleInstrs == 1

\* the blocks a function of a module has
MaxModuleBlocks == 2

ModuleShapes ==
    {s \in Shapes : Len(s) <= MaxModuleBlocks /\ SumTo(s, Len(s)) <= MaxModuleInstrs}

\* the functions a module is made of
ModuleFunctions ==
    UNION {{MakeFunction(x[1], body) :
                body \in {b \in Bodies(x[2], SumTo(x[1], Len(x[1])), SumTo(x[1], Len(x[1]))) :
                            Dominates(x[1], b)}}
           : x \in ModuleShapes \X Widths}

\* a module: a sequence of functions
Modules == UNION {[1..n -> ModuleFunctions] : n \in 1..MaxCalls}

\* the lines the printer pass writes (lines 53, 55, 57)
Banner == "*** MULTIPLICATION SHIFTS PASS EXECUTING ***"

Replaced == "Some instruction was replaced."

NothingChanged == "Nothing changed."

InitPipeline ==
    /\ \E m \in Modules :
            /\ F = m[1]
            /\ rest = Tail(m)
    /\ printed = <<>>
    /\ BeforeFirstCall
    /\ NoSecondInvocation

\* the pass manager runs the transformation pass on the current function
PassManagerRun ==
    /\ pc = "idle"
    /\ Call

\* a faulty variant of line 54: the test of the flag is inverted
PrinterRunInverted ==
    /\ pc = "done"
    /\ printed' = printed \o <<Banner, IF ~Modified THEN Replaced ELSE NothingChanged>>
    /\ pc' = "printed"
    /\ UNCHANGED <<F, Modified, BB, I, Inst, NewMul, PA, calls, nextId, erased, F0,
                   sites, examined, rest, second>>

\* lines 52-60: MultiplicationShiftsPrinter::run reads the static flag the
\* transformation pass left behind and writes two lines; it does not touch F
PrinterRun ==
    /\ pc = "done"
    /\ printed' = printed \o <<Banner, IF Modified THEN Replaced ELSE NothingChanged>>
    /\ pc' = "printed"
    /\ UNCHANGED <<F, Modified, BB, I, Inst, NewMul, PA, calls, nextId, erased, F0,
                   sites, examined, rest, second>>

\* the pass manager goes on to the next function of the module; the locals
\* of run() are gone, the static flag stays as it is
NextFunction ==
    /\ pc = "printed"
    /\ rest # <<>>
    /\ F' = Head(rest)
    /\ rest' = Tail(rest)
    /\ F0' = Head(rest)
    /\ nextId' = Len(Instrs(Head(rest))) + 1
    /\ erased' = {}
    /\ sites' = {}
    /\ examined' = <<>>
    /\ BB' = 0
    /\ I' = End
    /\ Inst' = End
    /\ NewMul' = NoValue
    /\ PA' = "unset"
    /\ pc' = "idle"
    /\ UNCHANGED <<Modified, calls, printed, second>>

NextPipeline ==
    \/ PassManagerRun
    \/ Fetch
    \/ NextBlock
    \/ Create
    \/ AssertOKFails
    \/ Rauw
    \/ Erase
    \/ SetModified
    \/ Return
    \/ PrinterRun
    \/ NextFunction

SpecPipeline == InitPipeline /\ [][NextPipeline]_vars

\* ------------------------------------------------- two calls in parallel
\* Two threads call run(), each on a function of its own; the steps of the
\* two calls interleave.  Each call has its own locals and its own
\* function; the static flag of line 14 is the one object they share.  A
\* failed assertion in either thread ends the process: no thread steps on.

\* the state of the first invocation that is its own
first == <<F, pc, BB, I, Inst, NewMul, PA, calls, nextId, erased, F0, sites,
           examined>>

\* the functions the two threads work on
ParallelFunctions ==
    {f \in ModuleFunctions : \A i \in InstrSet(f) : i.op = "Br" \/ i.w = MaxWidth}

InitPar ==
    /\ F \in ParallelFunctions
    /\ F2 \in ParallelFunctions
    /\ F02 = F2
    /\ pc2 = "idle"
    /\ BB2 = 0
    /\ I2 = End
    /\ Inst2 = End
    /\ NewMul2 = NoValue
    /\ PA2 = "unset"
    /\ nextId2 = Len(Instrs(F2)) + 1
    /\ sites2 = {}
    /\ BeforeFirstCall
    /\ NoModule

\* the first thread calls run() once
Invoke ==
    /\ pc = "idle"
    /\ Call

\* lines 18-23, second thread
Call2 ==
    /\ pc # "aborted"
    /\ pc2 = "idle"
    /\ Modified' = FALSE
    /\ F02' = F2
    /\ sites2' = {}
    /\ BB2' = 1
    /\ I2' = Begin(F2, 1)
    /\ Inst2' = End
    /\ NewMul2' = NoValue
    /\ PA2' = "unset"
    /\ pc2' = "loop"
    /\ UNCHANGED <<F2, nextId2, first, pipe>>

\* lines 23-31, second thread
Fetch2 ==
    /\ pc # "aborted"
    /\ pc2 = "loop"
    /\ I2 # End
    /\ Inst2' = I2
    /\ I2' = NextOf(F2, I2)
    /\ pc2' = IF Matches(InstOf(F2, I2)) THEN "create" ELSE "loop"
    /\ UNCHANGED <<F2, Modified, BB2, NewMul2, PA2, nextId2, F02, sites2, first,
                   pipe>>

\* line 21, second thread
NextBlock2 ==
    /\ pc # "aborted"
    /\ pc2 = "loop"
    /\ I2 = End
    /\ BB2 < Len(F2)
    /\ BB2' = BB2 + 1
    /\ I2' = Begin(F2, BB2 + 1)
    /\ UNCHANGED <<F2, Modified, pc2, Inst2, NewMul2, PA2, nextId2, F02, sites2,
                   first, pipe>>

\* lines 33-35, second thread
Create2 ==
    /\ pc # "aborted"
    /\ pc2 = "create"
    /\ LET Mul == InstOf(F2, Inst2)
           r == CreateShl(F2, Inst2, Mul.ops[1], ShiftAmountOf(Mul.ops[2]), nextId2)
       IN  /\ F2' = r.fn
           /\ NewMul2' = r.v
           /\ nextId2' = IF r.v.kind = "inst" THEN nextId2 + 1 ELSE nextId2
    /\ pc2' = "rauw"
    /\ UNCHANGED <<Modified, BB2, I2, Inst2, PA2, F02, sites2, first, pipe>>

\* line 35 in a build with assertions, second thread: the abort ends the
\* process, and the first thread with it
AssertOKFails2 ==
    /\ pc # "aborted"
    /\ pc2 = "create"
    /\ LET Mul == InstOf(F2, Inst2)
       IN  /\ Mul.ops[1].kind # "const"
           /\ ShiftAmountOf(Mul.ops[2]).w # Mul.ops[1].w
    /\ pc2' = "aborted"
    /\ pc' = "aborted"
    /\ UNCHANGED <<F2, Modified, BB2, I2, Inst2, NewMul2, PA2, nextId2, F02,
                   sites2, F, BB, I, Inst, NewMul, PA, calls, nextId, erased, F0,
                   sites, examined, pipe>>

\* line 36, second thread
Rauw2 ==
    /\ pc # "aborted"
    /\ pc2 = "rauw"
    /\ F2' = ReplaceAllUsesWith(F2, InstV(InstOf(F2, Inst2).w, Inst2), NewMul2)
    /\ pc2' = "erase"
    /\ UNCHANGED <<Modified, BB2, I2, Inst2, NewMul2, PA2, nextId2, F02, sites2,
                   first, pipe>>

\* line 37, second thread
Erase2 ==
    /\ pc # "aborted"
    /\ pc2 = "erase"
    /\ F2' = EraseFromParent(F2, Inst2)
    /\ sites2' = sites2 \cup {[mul |-> InstOf(F2, Inst2), new |-> NewMul2]}
    /\ pc2' = "flag"
    /\ UNCHANGED <<Modified, BB2, I2, Inst2, NewMul2, PA2, nextId2, F02, first,
                   pipe>>

\* line 38, second thread
SetModified2 ==
    /\ pc # "aborted"
    /\ pc2 = "flag"
    /\ Modified' = TRUE
    /\ pc2' = "loop"
    /\ UNCHANGED <<F2, BB2, I2, Inst2, NewMul2, PA2, nextId2, F02, sites2, first,
                   pipe>>

\* line 46, second thread
Return2 ==
    /\ pc # "aborted"
    /\ pc2 = "loop"
    /\ I2 = End
    /\ BB2 = Len(F2)
    /\ PA2' = IF Modified THEN "none" ELSE "all"
    /\ pc2' = "done"
    /\ UNCHANGED <<F2, Modified, BB2, I2, Inst2, NewMul2, nextId2, F02, sites2,
                   first, pipe>>

NextPar ==
    \/ Invoke
    \/ Fetch
    \/ NextBlock
    \/ Create
    \/ AssertOKFails
    \/ Rauw
    \/ Erase
    \/ SetModified
    \/ Return
    \/ Call2
    \/ Fetch2
    \/ NextBlock2
    \/ Create2
    \/ AssertOKFails2
    \/ Rauw2
    \/ Erase2
    \/ SetModified2
    \/ Return2

SpecPar == InitPar /\ [][NextPar]_vars

\* ------------------------------------------------------- no-wrap flags
\* clang emits 'mul nsw' for a signed multiplication (tutorial_mul.md,
\* llvm-diff output); the pass is called on functions whose binary
\* operators carry no-wrap flags.
NoWrapFlags == {"nsw", "nuw"}

\* function f with the flags fl on each of its binary operators
WithFlags(f, fl) ==
    [b \in 1..Len(f) |->
        [p \in 1..Len(f[b]) |->
            IF f[b][p].op \in BinaryOps
            THEN [f[b][p] EXCEPT !.flags = fl]
            ELSE f[b][p]]]

InitFlags ==
    /\ \E f \in ModuleFunctions, fl \in SUBSET NoWrapFlags : F = WithFlags(f, fl)
    /\ BeforeFirstCall
    /\ NoModule
    /\ NoSecondInvocation

SpecFlags == InitFlags /\ [][Next]_vars

\* ------------------------------------------------------------- properties
Done == pc = "done"

\* the call has examined the instruction with identity id and rewritten it
Rewritten(id) == \E s \in sites : s.mul.id = id

SiteOf(id) == CHOOSE s \in sites : s.mul.id = id

\* the Value that stands for v once the uses of the removed multiplies are
\* redirected
Redirected(v) ==
    IF v.kind = "inst" /\ Rewritten(v.val) THEN SiteOf(v.val).new ELSE v

\* v is a ConstantInt whose bit pattern, read unsigned, is 2^k for some k
IsPow2Const(v) ==
    v.kind = "const" /\ \E k \in 0..(v.w - 1) : Pow2(k) = v.val

Log2(c) == CHOOSE k \in 0..c : Pow2(k) = c

\* a multiply whose operand 1 is a constant power of two
Qualifying(i) == i.op = "Mul" /\ IsPow2Const(i.ops[2])

\* the multiply of the input was replaced by a constant, not by a shift
Folded(id) == Rewritten(id) /\ SiteOf(id).new.kind = "const"

\* the place of the input instruction m in its block of the output: its
\* position, less the multiplies before it that left no instruction behind
Place(m) ==
    LET b == ParentOf(F0, m.id)
        p == PosOf(F0, m.id)
    IN  p - Cardinality({q \in 1..(p - 1) : Folded(F0[b][q].id)})

\* the shifts of the output that are new, stand in the block and at the
\* place of the input multiply m, and have its operand 0 and log2 of its
\* operand 1 as operands
ShiftsFor(m) ==
    {s \in InstrSet(F) :
        /\ s.id \notin Ids(F0)
        /\ s.op = "Shl"
        /\ s.ops[1] = Redirected(m.ops[1])
        /\ s.ops[2].kind = "const"
        /\ s.ops[2].val = Log2(m.ops[2].val)
        /\ ParentOf(F, s.id) = ParentOf(F0, m.id)
        /\ PosOf(F, s.id) = Place(m)}

\* C1 as stated: every multiply by a constant power of two is replaced by
\* exactly one shift left of its operand 0 by log2 of the constant, at the
\* multiply's place in its block.
C1_EveryMultiplyBecomesOneShift ==
    Done => \A m \in InstrSet(F0) :
                Qualifying(m) =>
                    /\ m.id \notin Ids(F)
                    /\ Cardinality(ShiftsFor(m)) = 1

\* C1 amended: every multiply by a constant power of two is removed; if its
\* operand 0 is not a constant when it is examined, exactly one shift left
\* of that operand by log2 of the constant stands at its place; if its
\* operand 0 is a constant, no shift is created and its uses get the
\* constant (c0 << k) mod 2^w.
C1_ShiftUnlessOperand0Constant ==
    Done => \A m \in InstrSet(F0) :
                Qualifying(m) =>
                    /\ m.id \notin Ids(F)
                    /\ Rewritten(m.id)
                    /\ IF SiteOf(m.id).mul.ops[1].kind # "const"
                       THEN /\ Cardinality(ShiftsFor(m)) = 1
                            /\ SiteOf(m.id).new \in
                                    {InstV(s.w, s.id) : s \in ShiftsFor(m)}
                       ELSE SiteOf(m.id).new =
                                ConstantInt(m.w,
                                    APIntMul(SiteOf(m.id).mul.ops[1].val,
                                             m.ops[2].val, m.w))

\* a call has replaced a multiply of a non-constant by a shift
C1_Witness ==
    /\ Done
    /\ \E m \in InstrSet(F0) :
            /\ Qualifying(m)
            /\ m.ops[1].kind = "arg"
            /\ Cardinality(ShiftsFor(m)) = 1

\* C2: run() returns PreservedAnalyses::none() iff the call rewrote at least
\* one multiply, and all() otherwise.
C2_ModifiedIffRewritten ==
    Done => /\ PA \in {"none", "all"}
            /\ (PA = "none") <=> (sites # {})

\* a second call that rewrites nothing returns all() after a first call
\* that rewrote something
C2_Witness ==
    /\ Done
    /\ calls = 2
    /\ PA = "all"
    /\ erased # {}

\* C3: at every rewritten site the replacement computes, for every w-bit
\* value x of operand 0, what the multiply computed: (x << k) mod 2^w
\* = (x * C) mod 2^w; a folded replacement is the product of the constants.
C3_ShiftEqualsMultiply ==
    Done => \A s \in sites :
                LET w == s.mul.w
                    C == s.mul.ops[2].val
                IN  IF s.new.kind = "inst"
                    THEN \A x \in 0..(Pow2(w) - 1) :
                            APIntShl(x, InstOf(F, s.new.val).ops[2].val, w)
                                = APIntMul(x, C, w)
                    ELSE s.new.val = APIntMul(s.mul.ops[1].val, C, w)

\* a multiply by the constant with only the top bit set was replaced by a
\* shift by w - 1
C3_Witness ==
    /\ Done
    /\ \E s \in sites :
            /\ s.new.kind = "inst"
            /\ s.mul.ops[2].val = Pow2(s.mul.w - 1)
            /\ InstOf(F, s.new.val).ops[2].val = s.mul.w - 1

\* the input instruction i with the uses of removed multiplies redirected
WithRedirectedOperands(i) ==
    [i EXCEPT !.ops = [q \in 1..Len(i.ops) |-> Redirected(i.ops[q])]]

\* the instruction stands in block b of the output
InBlock(i, b) == \E p \in 1..Len(F[b]) : F[b][p] = i

\* C4 as stated: every instruction of the input that is not a multiply by a
\* constant power of two is present in the output with the same opcode and
\* the same operands; without a qualifying multiply the function is
\* unchanged and all() is returned.
C4_NonQualifyingUntouched ==
    Done => /\ \A i \in InstrSet(F0) :
                    ~Qualifying(i) => InBlock(i, ParentOf(F0, i.id))
            /\ (\A i \in InstrSet(F0) : ~Qualifying(i))
                    => (F = F0 /\ PA = "all")

\* C4 amended: an instruction that is not a multiply by a constant power of
\* two keeps its place and opcode, and its operands except that a reference
\* to a removed multiply becomes a reference to its replacement; the one
\* exception is a multiply whose operand 1 was the result of a multiply
\* that had been folded to a constant power of two before it was examined:
\* it is rewritten.  Without a qualifying multiply the function is
\* unchanged and all() is returned.
C4_UntouchedUpToRedirection ==
    Done => /\ \A i \in InstrSet(F0) :
                    ~Qualifying(i) =>
                        IF Rewritten(i.id)
                        THEN /\ i.op = "Mul"
                             /\ i.ops[2].kind = "inst"
                             /\ Folded(i.ops[2].val)
                             /\ IsPow2Const(SiteOf(i.ops[2].val).new)
                        ELSE InBlock(WithRedirectedOperands(i),
                                     ParentOf(F0, i.id))
            /\ (\A i \in InstrSet(F0) : ~Qualifying(i))
                    => (F = F0 /\ PA = "all")

\* a call has left in place a multiply whose only constant, a power of two,
\* is operand 0, and has redirected its operand 1 to a shift
C4_Witness ==
    /\ Done
    /\ \E i \in InstrSet(F0) :
            /\ i.op = "Mul"
            /\ ~Qualifying(i)
            /\ i.ops[1] = ConstantInt(i.w, 1)
            /\ ~Rewritten(i.id)
            /\ WithRedirectedOperands(i) # i
            /\ WithRedirectedOperands(i).ops[2].kind = "inst"
            /\ InBlock(WithRedirectedOperands(i), ParentOf(F0, i.id))

\* the uses the input makes of the multiplies the call removed, by
\* instructions the call did not remove: <<user, operand index, multiply>>
RedirectedUses ==
    {u \in {<<i.id, q, i.ops[q]>> :
                i \in {j \in InstrSet(F0) : j.op \in BinaryOps}, q \in 1..2} :
        /\ ~Rewritten(u[1])
        /\ u[3].kind = "inst"
        /\ Rewritten(u[3].val)}

\* every operand that refers to an instruction refers to one of the function
NoDanglingOperand(Fn) ==
    /\ Referenced(Fn) \subseteq Ids(Fn)
    /\ Referenced(Fn) \cap erased = {}

\* C5 as stated: every use of a removed multiply is now a use of the shift
\* that replaced it, and no operand refers to a removed instruction.
C5_UsesReferToTheShift ==
    Done => /\ \A u \in RedirectedUses :
                LET v == InstOf(F, u[1]).ops[u[2]]
                IN  /\ v.kind = "inst"
                    /\ v.val \in Ids(F) \ Ids(F0)
                    /\ InstOf(F, v.val).op = "Shl"
            /\ NoDanglingOperand(F)

\* C5 amended: every use of a removed multiply is now a use of its
\* replacement, which is the shift created for it or, when the multiply's
\* operand 0 was a constant, the folded constant; no operand refers to a
\* removed instruction.
C5_UsesReferToTheReplacement ==
    Done => /\ \A u \in RedirectedUses :
                LET v == InstOf(F, u[1]).ops[u[2]]
                    s == SiteOf(u[3].val)
                IN  /\ v = s.new
                    /\ IF s.mul.ops[1].kind = "const"
                       THEN v = ConstantInt(s.mul.w,
                                    APIntMul(s.mul.ops[1].val,
                                             s.mul.ops[2].val, s.mul.w))
                       ELSE /\ v.kind = "inst"
                            /\ v.val \in Ids(F) \ Ids(F0)
                            /\ InstOf(F, v.val).op = "Shl"
            /\ NoDanglingOperand(F)

\* a use in a block laid out before the block of the multiply it uses was
\* redirected to a shift
C5_Witness ==
    /\ Done
    /\ \E u \in RedirectedUses :
            /\ ParentOf(F0, u[1]) < ParentOf(F0, u[3].val)
            /\ InstOf(F, u[1]).ops[u[2]].kind = "inst"
            /\ InstOf(F, InstOf(F, u[1]).ops[u[2]].val).op = "Shl"

\* C6: a call on the output of a call changes nothing and returns all().
C6_SecondRunChangesNothing ==
    (Done /\ calls >= 2) => (F = F0 /\ PA = "all")

\* the multiplies of the input whose operand 1 is a constant
ConstMultiplies == {m \in InstrSet(F0) : m.op = "Mul" /\ m.ops[2].kind = "const"}

\* the w-bit pattern v is negative when read as a signed number
IsNegative(v, w) == v >= Pow2(w - 1)

\* the number of bits set in the w-bit pattern v
PopCount(v, w) == Cardinality({i \in 0..(w - 1) : Bit(v, i) = 1})

\* C7 as stated: a multiply by a constant that is zero or negative (the
\* minimum signed value included) is never rewritten, and only constants
\* with exactly one bit set are accepted.
C7_ZeroAndNegativeNeverRewritten ==
    Done => \A m \in ConstMultiplies :
                /\ Rewritten(m.id) => PopCount(m.ops[2].val, m.w) = 1
                /\ (m.ops[2].val = 0 \/ IsNegative(m.ops[2].val, m.w))
                        => (~Rewritten(m.id) /\ m.id \in Ids(F))

\* C7 amended: the test accepts a constant iff exactly one bit of its bit
\* pattern is set, whatever the sign: a multiply by zero, or by a negative
\* constant other than the minimum signed value, is never rewritten, and a
\* multiply by the minimum signed value (only the sign bit set) is
\* rewritten, with shift amount w - 1.
C7_ExactlyOneBitSet ==
    Done => /\ \A m \in ConstMultiplies :
                /\ Rewritten(m.id) <=> PopCount(m.ops[2].val, m.w) = 1
                /\ (m.ops[2].val = 0 \/
                    (IsNegative(m.ops[2].val, m.w) /\ m.ops[2].val # Pow2(m.w - 1)))
                        => (~Rewritten(m.id) /\ m.id \in Ids(F))
                /\ m.ops[2].val = Pow2(m.w - 1)
                        => /\ m.id \notin Ids(F)
                           /\ SiteOf(m.id).new.kind = "inst"
                                => InstOf(F, SiteOf(m.id).new.val).ops[2].val = m.w - 1
            /\ \A s \in sites : PopCount(s.mul.ops[2].val, s.mul.w) = 1

\* a call has left in place a multiply by zero and a multiply by -1 and
\* has rewritten a multiply by the minimum signed value
C7_Witness ==
    /\ Done
    /\ \E m \in ConstMultiplies :
            /\ m.ops[2].val \in {0, Pow2(m.w) - 1}
            /\ m.id \in Ids(F)
    /\ \E m \in ConstMultiplies :
            /\ m.ops[2].val = Pow2(m.w - 1)
            /\ Rewritten(m.id)
            /\ SiteOf(m.id).new.kind = "inst"

\* the multiplies of the input whose operand 1 is the constant 1
MultipliesByOne == {m \in ConstMultiplies : m.ops[2].val = 1}

\* C8 as stated: a multiply by the constant 1 is rewritten to a shift by 0
\* and none() is returned.
C8_MultiplyByOneBecomesShiftByZero ==
    Done => \A m \in MultipliesByOne :
                /\ m.id \notin Ids(F)
                /\ \E s \in ShiftsFor(m) : s.ops[2].val = 0
                /\ PA = "none"

\* C8 amended: a multiply by the constant 1 is never skipped and none() is
\* returned; it is rewritten to a shift by 0 if its operand 0 is not a
\* constant when it is examined, and replaced by that constant (c0 << 0)
\* otherwise.
C8_MultiplyByOneIsRewritten ==
    Done => \A m \in MultipliesByOne :
                /\ m.id \notin Ids(F)
                /\ Rewritten(m.id)
                /\ PA = "none"
                /\ IF SiteOf(m.id).mul.ops[1].kind # "const"
                   THEN /\ \E s \in ShiftsFor(m) : s.ops[2].val = 0
                        /\ SiteOf(m.id).new.kind = "inst"
                        /\ InstOf(F, SiteOf(m.id).new.val).ops[2]
                                = ConstantInt(Int32Width, 0)
                   ELSE SiteOf(m.id).new = SiteOf(m.id).mul.ops[1]

\* a multiply of the argument by 1 has become a shift by 0
C8_Witness ==
    /\ Done
    /\ \E m \in MultipliesByOne :
            /\ m.ops[1].kind = "arg"
            /\ \E s \in ShiftsFor(m) : s.ops[2].val = 0
            /\ PA = "none"

\* the identities of the instructions of a block, in order
IdsOf(blk) == [p \in 1..Len(blk) |-> blk[p].id]

\* the identities of a block of the input with every rewritten multiply
\* replaced by the shift created for it, or dropped if none was created
RECURSIVE Substituted(_)
Substituted(blk) ==
    IF blk = <<>> THEN <<>>
    ELSE LET h == Head(blk)
         IN  (IF ~Rewritten(h.id) THEN <<h.id>>
              ELSE IF SiteOf(h.id).new.kind = "inst"
                   THEN <<SiteOf(h.id).new.val>>
                   ELSE <<>>)
             \o Substituted(Tail(blk))

\* a block's instructions that the call did not rewrite
RECURSIVE Kept(_)
Kept(blk) ==
    IF blk = <<>> THEN <<>>
    ELSE (IF Rewritten(Head(blk).id) THEN <<>> ELSE <<Head(blk).id>>)
            \o Kept(Tail(blk))

\* a block's instructions that were in the input
RECURSIVE Old(_)
Old(blk) ==
    IF blk = <<>> THEN <<>>
    ELSE (IF Head(blk).id \in Ids(F0) THEN <<Head(blk).id>> ELSE <<>>)
            \o Old(Tail(blk))

\* C9: the blocks are the same, in the same order; in every block the
\* instructions that were not rewritten keep their relative order and every
\* new shift stands where its multiply stood.
C9_OrderPreserved ==
    Done => /\ Len(F) = Len(F0)
            /\ \A b \in 1..Len(F0) :
                /\ F[b][Len(F[b])] = F0[b][Len(F0[b])]
                /\ Old(F[b]) = Kept(F0[b])
                /\ IdsOf(F[b]) = Substituted(F0[b])

\* a shift stands between two instructions that were not rewritten
C9_Witness ==
    /\ Done
    /\ \E b \in 1..Len(F) :
            /\ Len(F[b]) = 3
            /\ F[b][1].id \in Ids(F0)
            /\ F[b][2].id \notin Ids(F0)
            /\ F0[b][1].op = "Add"

\* the multiplies of block b of the input that the call replaced by a
\* constant
FoldedIn(b) == {p \in 1..Len(F0[b]) : Folded(F0[b][p].id)}

\* C10 as stated: every block has as many instructions after the call as
\* before.
C10_InstructionCountUnchanged ==
    Done => \A b \in 1..Len(F0) : Len(F[b]) = Len(F0[b])

\* C10 amended: at every matched site one instruction is removed, and one is
\* added unless the multiply's operand 0 is a constant when it is examined
\* (none is added then): a block never grows, and it shrinks by the number
\* of its multiplies with a constant operand 0 that were rewritten.
C10_CountShrinksByFoldedSites ==
    Done => /\ \A b \in 1..Len(F0) :
                /\ Len(F[b]) = Len(F0[b]) - Cardinality(FoldedIn(b))
                /\ Len(F[b]) <= Len(F0[b])
            /\ \A s \in sites :
                (s.new.kind = "const") <=> (s.mul.ops[1].kind = "const")
            /\ Cardinality(Ids(F) \ Ids(F0))
                = Cardinality({s \in sites : s.mul.ops[1].kind # "const"})

\* a block with two rewritten multiplies, one of the argument and one of an
\* instruction result, has kept its length
C10_Witness ==
    /\ Done
    /\ \E b \in 1..Len(F0) :
            /\ Len(F[b]) = Len(F0[b])
            /\ \E p, q \in 1..Len(F0[b]) :
                    /\ Rewritten(F0[b][p].id)
                    /\ Rewritten(F0[b][q].id)
                    /\ F0[b][p].ops[1].kind = "arg"
                    /\ F0[b][q].ops[1].kind = "inst"

\* C17: when a call has returned, no instruction of the function is a
\* multiply whose operand 1 is a constant power of two, chains of dependent
\* multiplies included.
C17_NoQualifyingMultiplyRemains ==
    Done => \A i \in InstrSet(F) : ~Qualifying(i)

\* C18: the shift-amount constant of every shift the pass has created has
\* the bit width of the shift's operand 0, whatever that width is.
C18_ShiftAmountHasOperandWidth ==
    \A i \in InstrSet(F) :
        (i.op = "Shl" /\ i.id \notin Ids(F0)) => i.ops[2].w = i.ops[1].w

\* C11: a call on a well-formed function has no error outcome: on the inputs
\* the verifier accepts reduce never fails.  (A multiply with fewer than two
\* operands, the one failure the claim allows, is not well-formed.)
C11_NeverFailsOnWellFormedInput ==
    pc # "aborted"

\* the identities of the instructions the function had when the call began,
\* in layout order
AtCallTime == IdsOf(Instrs(F0))

\* the call is between its entry and its return
Running == pc \in {"loop", "create", "rauw", "erase", "flag"}

\* C15: the iterator never stands at an erased instruction and the fetched
\* instruction is live as long as it is dereferenced; the instructions
\* examined so far are a prefix of those the function had at call time, in
\* layout order, so each is examined at most once and none is a shift the
\* pass inserted; a running call can always take a step, and when it
\* returns it has examined every instruction of call time exactly once.
C15_OnePassOverCallTimeInstructions ==
    LET all == AtCallTime
        live == Ids(F)
        inserted == Ids(F) \ Ids(F0)
    IN  /\ I \notin erased
        /\ (Running /\ I # End) => (I \in live /\ ParentOf(F, I) = BB)
        /\ pc \in {"create", "rauw", "erase"} => Inst \in live
        /\ Len(examined) <= Len(all)
        /\ examined = SubSeq(all, 1, Len(examined))
        /\ \A k \in 1..Len(examined) : examined[k] \notin inserted
        /\ Running => ENABLED Next
        /\ Done => examined = all

\* a call over several blocks has returned after it erased a multiply that
\* was not the last instruction of its block and inserted a shift
C15_Witness ==
    /\ Done
    /\ Len(F0) >= 2
    /\ examined = AtCallTime
    /\ Ids(F) \ Ids(F0) # {}
    /\ \E s \in sites : PosOf(F0, s.mul.id) = 1 /\ Len(F0[ParentOf(F0, s.mul.id)]) = 3

\* the Value returned at line 35 is a new shift that stands immediately
\* before the fetched multiply, in its block
ShiftBeforeMultiply ==
    /\ NewMul.kind = "inst"
    /\ NewMul.val \in Ids(F) \ Ids(F0)
    /\ InstOf(F, NewMul.val).op = "Shl"
    /\ ParentOf(F, NewMul.val) = ParentOf(F, Inst)
    /\ PosOf(F, NewMul.val) = PosOf(F, Inst) - 1

\* the multiply is still in the function and has no use left
RedirectedNotErased ==
    /\ Inst \in Ids(F)
    /\ UsersOf(F, InstV(InstOf(F, Inst).w, Inst)) = {}

\* the multiply is gone
MultiplyErased == Inst \notin Ids(F) /\ Inst \in erased

\* C16 as stated: every rewrite inserts the shift, then redirects all uses,
\* then erases the multiply; in every state in between every operand of the
\* function refers to a live Value, and the multiply has no use left when it
\* is erased.
C16_InsertThenRedirectThenErase ==
    /\ NoDanglingOperand(F)
    /\ pc = "rauw" => (Inst \in Ids(F) /\ ShiftBeforeMultiply)
    /\ pc = "erase" => RedirectedNotErased
    /\ pc = "flag" => MultiplyErased

\* C16 amended: the first step inserts the shift immediately before the
\* multiply unless the multiply's operand 0 is a constant; then nothing is
\* inserted and the uses are redirected to a constant.  The order of the
\* steps, the liveness of every operand and the absence of uses at the
\* erasure are as stated.
C16_ReplacementThenRedirectThenErase ==
    /\ NoDanglingOperand(F)
    /\ pc = "rauw" =>
            /\ Inst \in Ids(F)
            /\ IF InstOf(F, Inst).ops[1].kind # "const"
               THEN ShiftBeforeMultiply
               ELSE NewMul.kind = "const" /\ NewMul.w = InstOf(F, Inst).w
    /\ pc = "erase" => RedirectedNotErased
    /\ pc = "flag" => MultiplyErased

\* a multiply that had two uses, in another block, stands redirected and
\* not yet erased, its shift before it
C16_Witness ==
    /\ pc = "erase"
    /\ ShiftBeforeMultiply
    /\ RedirectedNotErased
    /\ \E u \in InstrSet(F0) :
            /\ u.op \in BinaryOps
            /\ u.ops[1] = InstV(u.w, Inst)
            /\ u.ops[2] = InstV(u.w, Inst)
            /\ ParentOf(F0, u.id) # ParentOf(F0, Inst)

\* lines 18-46 run to their end on function Fn, as one computation: the
\* instructions of call time are visited in layout order (ids, from the
\* k-th on), nid is the identity of the next created instruction and mod
\* the value of the flag
RECURSIVE RunOver(_, _, _, _, _)
RunOver(Fn, ids, k, nid, mod) ==
    IF k > Len(ids)
    THEN [fn |-> Fn, pa |-> IF mod THEN "none" ELSE "all"]
    ELSE LET Mul == InstOf(Fn, ids[k])
         IN  IF Matches(Mul)
             THEN LET r == CreateShl(Fn, Mul.id, Mul.ops[1],
                                     ShiftAmountOf(Mul.ops[2]), nid)
                      g == EraseFromParent(
                               ReplaceAllUsesWith(r.fn, InstV(Mul.w, Mul.id), r.v),
                               Mul.id)
                  IN  RunOver(g, ids, k + 1,
                              IF r.v.kind = "inst" THEN nid + 1 ELSE nid, TRUE)
             ELSE RunOver(Fn, ids, k + 1, nid, mod)

\* what one call of run() on Fn, alone and from a fresh flag, leaves and
\* returns
SequentialRun(Fn) ==
    RunOver(Fn, IdsOf(Instrs(Fn)), 1,
            (CHOOSE m \in Ids(Fn) : \A j \in Ids(Fn) : j <= m) + 1, FALSE)

\* C12: in a sequence of calls on the functions of a module, what a call
\* leaves of its function and what it returns are determined by the function
\* it was given alone: they are what a call on that function from a fresh
\* state leaves and returns, whatever the calls before it did.
C12_ResultDependsOnInputOnly ==
    Done => /\ F = SequentialRun(F0).fn
            /\ PA = SequentialRun(F0).pa

\* the second call of a pipeline returns all() on a function without a
\* multiply to rewrite, directly after a call that rewrote its function
C12_Witness ==
    /\ Done
    /\ calls = 2
    /\ printed = <<Banner, Replaced>>
    /\ Modified = FALSE
    /\ PA = "all"
    /\ F = F0

\* C14: when the printer pass has run on a function, it has written the
\* banner and then "Some instruction was replaced." if the transformation
\* pass rewrote an instruction of that function, "Nothing changed." if not,
\* once per function; and the printer pass leaves the function as it is.
C14_PrinterReportsThisFunction ==
    /\ [](pc = "printed" =>
            /\ Len(printed) = 2 * calls
            /\ printed[Len(printed) - 1] = Banner
            /\ printed[Len(printed)] =
                    IF sites # {} THEN Replaced ELSE NothingChanged
            /\ (sites # {}) <=> (F # F0))
    /\ [][PrinterRun => F' = F]_vars

\* the printer has reported a replacement for the first function of a module
\* and none for the second
C14_Witness ==
    /\ pc = "printed"
    /\ calls = 2
    /\ printed = <<Banner, Replaced, Banner, NothingChanged>>
    /\ sites = {}

\* C13: when two calls of run() on two functions interleave, each call
\* leaves of its own function what a call alone leaves of it, and returns
\* what a call alone returns.
C13_EachCallAsIfAlone ==
    /\ pc = "done" => /\ F = SequentialRun(F0).fn
                      /\ PA = SequentialRun(F0).pa
    /\ pc2 = "done" => /\ F2 = SequentialRun(F02).fn
                       /\ PA2 = SequentialRun(F02).pa

\* the w-bit pattern v read as a signed number
Signed(v, w) == IF v >= Pow2(w - 1) THEN v - Pow2(w) ELSE v

\* n is a w-bit signed number
InSignedRange(n, w) == -Pow2(w - 1) <= n /\ n < Pow2(w - 1)

\* 'mul' with flags fl has a defined result on x and c: no signed overflow
\* under nsw, no unsigned overflow under nuw
MulDefined(x, c, w, fl) ==
    /\ "nsw" \in fl => InSignedRange(Signed(x, w) * Signed(c, w), w)
    /\ "nuw" \in fl => x * c < Pow2(w)

\* 'shl' with flags fl has a defined result on x and k: the amount is below
\* the width, no bit that differs from the sign is shifted out under nsw, no
\* set bit is shifted out under nuw
ShlDefined(x, k, w, fl) ==
    /\ k \in 0..(w - 1)
    /\ "nsw" \in fl => InSignedRange(Signed(x, w) * Pow2(k), w)
    /\ "nuw" \in fl => x * Pow2(k) < Pow2(w)

\* the values operand 0 of the multiply m may have
Operand0Range(m) ==
    IF m.ops[1].kind = "const" THEN {m.ops[1].val} ELSE 0..(Pow2(m.w) - 1)

\* C19: a shift the pass has inserted carries no no-wrap flag, whatever the
\* flags of the multiply; and for every value of operand 0 on which the
\* multiply with its flags has a defined result, the replacement (the shift,
\* or the folded constant) has a defined result, the same one.
C19_UnflaggedShiftRefinesMultiply ==
    /\ \A i \in InstrSet(F) : i.id \notin Ids(F0) => i.flags = {}
    /\ \A s \in sites :
            LET m == s.mul
                w == s.mul.w
                C == s.mul.ops[2].val
            IN  \A x \in Operand0Range(m) :
                    MulDefined(x, C, w, m.flags) =>
                        IF s.new.kind = "inst"
                        THEN LET shl == InstOf(F, s.new.val)
                             IN  /\ shl.op = "Shl"
                                 /\ ShlDefined(x, shl.ops[2].val, w, shl.flags)
                                 /\ APIntShl(x, shl.ops[2].val, w) = APIntMul(x, C, w)
                        ELSE /\ s.new.val \in 0..(Pow2(w) - 1)
                             /\ s.new.val = APIntMul(x, C, w)

\* a 'mul nsw' of the argument by the constant with only the sign bit set,
\* defined on 1 only among the values other than 0, was replaced by a shift
\* by w - 1
C19_Witness ==
    /\ Done
    /\ \E s \in sites :
            /\ "nsw" \in s.mul.flags
            /\ s.mul.ops[1].kind = "arg"
            /\ s.mul.ops[2].val = Pow2(s.mul.w - 1)
            /\ s.new.kind = "inst"
            /\ InstOf(F, s.new.val).ops[2].val = s.mul.w - 1
            /\ MulDefined(1, s.mul.ops[2].val, s.mul.w, s.mul.flags)

====
